---- MODULE Spec2Model ----
(***************************************************************************)
(* Model of api/index.py: the Flask endpoint POST /generate that takes an  *)
(* uploaded document, saves it under tempdir/<sanitized filename>,         *)
(* extracts its text, asks the generative service for MCQs, renders them   *)
(* into tempdir/generated_mcqs_<base>.pdf and removes the upload again.    *)
(*                                                                         *)
(* Strings are sequences of one-character strings.  The scratch directory  *)
(* is one shared map from path to file; every request of the handler is a  *)
(* process that takes the steps of generate_mcqs() one file-system or      *)
(* service call at a time, so that concurrent requests interleave.         *)
(***************************************************************************)
EXTENDS Integers, Sequences, FiniteSets, TLC

VARIABLES
    pc,        \* pc[r]: position of request r inside generate_mcqs()
    upload,    \* upload[r]: the multipart input of request r (body once read)
    path,      \* path[r]: temp_upload_path, <<>> while not in locals()
    text,      \* text[r]: outcome of extract_text_from_file
    numq,      \* numq[r]: num_questions, 0 while not parsed
    mcqs,      \* mcqs[r]: value returned by generate_mcqs_with_gemini
    exc,       \* exc[r]: the exception caught by the handler, "" if none
    resp,      \* resp[r]: the response the handler returns
    log,       \* log[r]: the calls request r has made so far, in order
    scratch,   \* the shared tempfile.gettempdir() directory: path -> file
    fname,     \* allowed_file study: the filename under test
    verdict,   \* allowed_file study: the value allowed_file returned
    gtext,     \* create_pdf study: the generated text under test
    cells      \* create_pdf study: the texts passed to pdf.multi_cell

vars == <<pc, upload, path, text, numq, mcqs, exc, resp, log, scratch, fname, verdict, gtext, cells>>

handlerVars == <<pc, upload, path, text, numq, mcqs, exc, resp, log, scratch>>

nameVars == <<fname, verdict>>

pdfVars == <<gtext, cells>>

(***************************************************************************)
(* Bounds                                                                  *)
(***************************************************************************)
NumReq == 2

MaxStemLen == 2

MaxTokens == 5

Req == 1..NumReq

(***************************************************************************)
(* Python str operations used by the code                                  *)
(***************************************************************************)
lowerChar(c) ==
    CASE c = "P" -> "p"
      [] c = "D" -> "d"
      [] c = "F" -> "f"
      [] c = "T" -> "t"
      [] c = "X" -> "x"
      [] c = "O" -> "o"
      [] c = "C" -> "c"
      [] OTHER -> c

\* str.lower()
lower(s) == [i \in 1..Len(s) |-> lowerChar(s[i])]

\* c in s
contains(s, c) == \E i \in 1..Len(s) : s[i] = c

RECURSIVE rfind(_, _, _)
\* str.rfind restricted to s[1..i]; 0 when c does not occur
rfind(s, c, i) ==
    IF i = 0 THEN 0
    ELSE IF s[i] = c THEN i
    ELSE rfind(s, c, i - 1)

\* s.rsplit(c, 1)
rsplit1(s, c) ==
    LET k == rfind(s, c, Len(s))
    IN  IF k = 0 THEN <<s>>
        ELSE <<SubSeq(s, 1, k - 1), SubSeq(s, k + 1, Len(s))>>

startsWith(s, p) ==
    /\ Len(p) <= Len(s)
    /\ \A j \in 1..Len(p) : s[j] = p[j]

RECURSIVE find(_, _, _)
\* str.find(sep) from index i on; 0 when sep does not occur
find(s, sep, i) ==
    IF i + Len(sep) - 1 > Len(s) THEN 0
    ELSE IF startsWith(SubSeq(s, i, Len(s)), sep) THEN i
    ELSE find(s, sep, i + 1)

RECURSIVE split(_, _)
\* s.split(sep): left to right, non-overlapping
split(s, sep) ==
    LET k == find(s, sep, 1)
    IN  IF k = 0 THEN <<s>>
        ELSE <<SubSeq(s, 1, k - 1)>> \o split(SubSeq(s, k + Len(sep), Len(s)), sep)

Whitespace == {" ", "\n"}

RECURSIVE lstrip(_, _)
lstrip(s, chars) ==
    IF s # <<>> /\ Head(s) \in chars THEN lstrip(Tail(s), chars) ELSE s

RECURSIVE rstrip(_, _)
rstrip(s, chars) ==
    IF s # <<>> /\ s[Len(s)] \in chars THEN rstrip(SubSeq(s, 1, Len(s) - 1), chars) ELSE s

\* s.strip(chars)
stripChars(s, chars) == rstrip(lstrip(s, chars), chars)

\* s.strip()
strip(s) == stripChars(s, Whitespace)

(***************************************************************************)
(* File handling: allowed_file                                             *)
(***************************************************************************)
ALLOWED_EXTENSIONS == {<<"p", "d", "f">>, <<"t", "x", "t">>, <<"d", "o", "c", "x">>}

\* mutant: the extension is compared without lower-casing
allowed_file_nolower(filename) ==
    /\ contains(filename, ".")
    /\ rsplit1(filename, ".")[2] \in ALLOWED_EXTENSIONS

allowed_file(filename) ==
    /\ contains(filename, ".")
    /\ lower(rsplit1(filename, ".")[2]) \in ALLOWED_EXTENSIONS

(***************************************************************************)
(* werkzeug.utils.secure_filename, as called on the uploaded filename      *)
(***************************************************************************)
Letters == {"a", "b", "c", "d", "e", "f", "o", "p", "t", "x", "P", "D", "F", "T", "X", "O", "C",
            "g", "m", "n", "q", "r", "s"}

\* the characters kept by _filename_ascii_strip_re = [^A-Za-z0-9_.-]
SafeChars == Letters \cup {"_", ".", "-"}

\* s.replace(a, b) for one-character a, b
replaceChar(s, a, b) == [i \in 1..Len(s) |-> IF s[i] = a THEN b ELSE s[i]]

RECURSIVE collapse(_)
collapse(s) ==
    IF s = <<>> THEN <<>>
    ELSE IF Head(s) \in Whitespace THEN <<"_">> \o collapse(lstrip(s, Whitespace))
    ELSE <<Head(s)>> \o collapse(Tail(s))

\* "_".join(s.split())
joinSplit(s) == collapse(strip(s))

\* os.sep becomes a space, whitespace runs become "_", unsafe characters are
\* dropped, leading and trailing "." and "_" are stripped
secure_filename(filename) ==
    stripChars(SelectSeq(joinSplit(replaceChar(filename, "/", " ")),
                         LAMBDA c : c \in SafeChars), {".", "_"})

\* tempfile.gettempdir()
TempDir == <<"/", "t", "m", "p">>

\* os.path.join(tempfile.gettempdir(), filename)
tempJoin(filename) == TempDir \o <<"/">> \o filename

(***************************************************************************)
(* The scratch directory                                                   *)
(***************************************************************************)
exists(fs, p) == p \in DOMAIN fs

writeFile(fs, p, f) == [q \in (DOMAIN fs) \cup {p} |-> IF q = p THEN f ELSE fs[q]]

removeFile(fs, p) == [q \in (DOMAIN fs) \ {p} |-> fs[q]]

\* the file written by file.save() for request r
uploadFile(r, body) == [kind |-> "upload", owner |-> r, body |-> body, cells |-> <<>>]

\* the file written by pdf.output() for request r
docFile(r, cs) ==
    [kind |-> "doc", owner |-> r, body |-> IF cs = <<>> THEN "empty" ELSE "text", cells |-> cs]

(***************************************************************************)
(* extract_text_from_file                                                  *)
(***************************************************************************)
raised(e) == [exc |-> e, kind |-> "None", src |-> 0]

returned(k, r) == [exc |-> "", kind |-> k, src |-> r]

\* the format-specific readers: a missing file and an unparsable or
\* undecodable file raise, a file without text gives "", any other file its text
readFile(fs, p, notFound, bad) ==
    IF ~exists(fs, p) THEN raised(notFound)
    ELSE IF fs[p].body = "corrupt" THEN raised(bad)
    ELSE IF fs[p].body = "empty" THEN returned("empty", 0)
    ELSE returned("text", fs[p].owner)

extract_text_from_file(fs, file_path) ==
    LET parts == rsplit1(file_path, ".")
    IN  IF Len(parts) < 2 THEN raised("IndexError")
        ELSE LET ext == lower(parts[2])
             IN  IF ext = <<"p", "d", "f">>
                     THEN readFile(fs, file_path, "FileNotFoundError", "PDFSyntaxError")
                 ELSE IF ext = <<"d", "o", "c", "x">>
                     THEN readFile(fs, file_path, "PackageNotFoundError", "BadZipFile")
                 ELSE IF ext = <<"t", "x", "t">>
                     THEN readFile(fs, file_path, "FileNotFoundError", "UnicodeDecodeError")
                 ELSE returned("None", 0)

\* Python truthiness of the extractor's value
truthy(t) == t.kind = "text"

(***************************************************************************)
(* create_pdf                                                              *)
(***************************************************************************)
Marker == <<"#", "#", " ", "M", "C", "Q">>

RECURSIVE multi_cells(_)
\* the texts handed to pdf.multi_cell, in order
multi_cells(parts) ==
    IF parts = <<>> THEN <<>>
    ELSE (IF strip(Head(parts)) # <<>> THEN <<strip(Head(parts))>> ELSE <<>>)
         \o multi_cells(Tail(parts))

\* mutant: the "if mcq.strip()" test is dropped
create_pdf_nofilter(mcqsText) ==
    LET parts == split(mcqsText, Marker)
    IN  [i \in 1..Len(parts) |-> strip(parts[i])]

create_pdf(mcqsText) == multi_cells(split(mcqsText, Marker))

(***************************************************************************)
(* generate_mcqs_with_gemini                                               *)
(***************************************************************************)
\* what model.generate_content answers: two marker-introduced blocks wrapped
\* in whitespace
RawResponses ==
    { <<"\n">> \o Marker \o <<" ", "a", "\n">> \o Marker \o <<" ", "b", "\n">> }

NoMcqs == [src |-> 0, n |-> 0, body |-> <<>>]

\* response.text.strip() for the prompt built from text t and count n
generate_mcqs_with_gemini(t, n, raw) == [src |-> t.src, n |-> n, body |-> strip(raw)]

(***************************************************************************)
(* The requests                                                            *)
(***************************************************************************)
\* "a b.pdf" is accepted and saved as a_b.pdf, ".txt" is accepted and saved
\* as txt, "a.exe" is refused
ReqNames ==
    { <<"a", " ", "b", ".", "p", "d", "f">>,
      <<".", "t", "x", "t">>,
      <<"a", ".", "e", "x", "e">> }

Bodies == {"text", "empty", "corrupt"}

\* request.form.get('num_questions'): missing, or not an integer
FormValues == {"absent", "abc"}

DefaultNumQuestions == 5

NoUpload == [hasFile |-> FALSE, filename |-> <<>>, body |-> ""]

NoText == [exc |-> "", kind |-> "unset", src |-> 0]

NoResp == [status |-> 0, error |-> "", mcqs |-> NoMcqs, pdf_filename |-> <<>>]

errorResp(code, msg) == [status |-> code, error |-> msg, mcqs |-> NoMcqs, pdf_filename |-> <<>>]

\* the "except Exception as e" clause
serverError(e) == errorResp(500, "An error occurred: " \o e)

Prefix == <<"g", "e", "n", "e", "r", "a", "t", "e", "d", "_", "m", "c", "q", "s", "_">>

\* f"generated_mcqs_{base_name}.pdf"
pdfFilename(filename) == Prefix \o rsplit1(filename, ".")[1] \o <<".", "p", "d", "f">>

NoCells == [called |-> FALSE, texts |-> <<>>]

InitHandler ==
    /\ pc = [r \in Req |-> "idle"]
    /\ upload = [r \in Req |-> NoUpload]
    /\ path = [r \in Req |-> <<>>]
    /\ text = [r \in Req |-> NoText]
    /\ numq = [r \in Req |-> 0]
    /\ mcqs = [r \in Req |-> NoMcqs]
    /\ exc = [r \in Req |-> ""]
    /\ resp = [r \in Req |-> NoResp]
    /\ log = [r \in Req |-> <<>>]
    /\ scratch = <<>>

Init ==
    /\ InitHandler
    /\ fname = <<>>
    /\ verdict = "unset"
    /\ gtext = <<>>
    /\ cells = NoCells

\* a POST /generate request arrives, with or without a file part
Arrive(r) ==
    /\ pc[r] = "idle"
    /\ \/ upload' = [upload EXCEPT ![r] = NoUpload]
       \/ \E f \in ReqNames :
            upload' = [upload EXCEPT ![r] = [hasFile |-> TRUE, filename |-> f, body |-> ""]]
    /\ pc' = [pc EXCEPT ![r] = "validate"]
    /\ UNCHANGED <<path, text, numq, mcqs, exc, resp, log, scratch, nameVars, pdfVars>>

\* mutant: the allowed_file test is skipped
Validate_unchecked(r) ==
    /\ pc[r] = "validate"
    /\ IF ~upload[r].hasFile
       THEN /\ resp' = [resp EXCEPT ![r] = errorResp(400, "No file uploaded.")]
            /\ pc' = [pc EXCEPT ![r] = "done"]
            /\ log' = [log EXCEPT ![r] = @ \o <<"validate", "respond">>]
       ELSE /\ pc' = [pc EXCEPT ![r] = "save"]
            /\ log' = [log EXCEPT ![r] = @ \o <<"validate">>]
            /\ UNCHANGED resp
    /\ UNCHANGED <<upload, path, text, numq, mcqs, exc, scratch, nameVars, pdfVars>>

\* the two early returns in front of the try block
Validate(r) ==
    /\ pc[r] = "validate"
    /\ IF ~upload[r].hasFile
       THEN /\ resp' = [resp EXCEPT ![r] = errorResp(400, "No file uploaded.")]
            /\ pc' = [pc EXCEPT ![r] = "done"]
            /\ log' = [log EXCEPT ![r] = @ \o <<"validate", "respond">>]
       ELSE IF upload[r].filename = <<>> \/ ~allowed_file(upload[r].filename)
       THEN /\ resp' = [resp EXCEPT ![r] = errorResp(400,
                           "Invalid file format. Please upload PDF, DOCX, or TXT files.")]
            /\ pc' = [pc EXCEPT ![r] = "done"]
            /\ log' = [log EXCEPT ![r] = @ \o <<"validate", "respond">>]
       ELSE /\ pc' = [pc EXCEPT ![r] = "save"]
            /\ log' = [log EXCEPT ![r] = @ \o <<"validate">>]
            /\ UNCHANGED resp
    /\ UNCHANGED <<upload, path, text, numq, mcqs, exc, scratch, nameVars, pdfVars>>

\* mutant: the upload is saved under a per-request name
Save_unique(r) ==
    /\ pc[r] = "save"
    /\ \E b \in Bodies :
         LET p == tempJoin([i \in 1..r |-> "x"] \o <<"-">> \o secure_filename(upload[r].filename))
         IN  /\ upload' = [upload EXCEPT ![r].body = b]
             /\ path' = [path EXCEPT ![r] = p]
             /\ scratch' = writeFile(scratch, p, uploadFile(r, b))
    /\ pc' = [pc EXCEPT ![r] = "extract"]
    /\ log' = [log EXCEPT ![r] = @ \o <<"persist">>]
    /\ UNCHANGED <<text, numq, mcqs, exc, resp, nameVars, pdfVars>>

\* filename = secure_filename(...); file.save(temp_upload_path): the bytes
\* of the upload are read here, body says what a reader will make of them
Save(r) ==
    /\ pc[r] = "save"
    /\ \E b \in Bodies :
         LET p == tempJoin(secure_filename(upload[r].filename))
         IN  /\ upload' = [upload EXCEPT ![r].body = b]
             /\ path' = [path EXCEPT ![r] = p]
             /\ scratch' = writeFile(scratch, p, uploadFile(r, b))
    /\ pc' = [pc EXCEPT ![r] = "extract"]
    /\ log' = [log EXCEPT ![r] = @ \o <<"persist">>]
    /\ UNCHANGED <<text, numq, mcqs, exc, resp, nameVars, pdfVars>>

\* text = extract_text_from_file(temp_upload_path); if not text: return 400
Extract(r) ==
    /\ pc[r] = "extract"
    /\ LET t == extract_text_from_file(scratch, path[r])
       IN  /\ text' = [text EXCEPT ![r] = t]
           /\ IF t.exc # ""
              THEN /\ exc' = [exc EXCEPT ![r] = t.exc]
                   /\ resp' = [resp EXCEPT ![r] = serverError(t.exc)]
                   /\ pc' = [pc EXCEPT ![r] = "cleanup"]
              ELSE IF ~truthy(t)
              THEN /\ resp' = [resp EXCEPT ![r] =
                                  errorResp(400, "Could not extract text from the file.")]
                   /\ pc' = [pc EXCEPT ![r] = "cleanup"]
                   /\ UNCHANGED exc
              ELSE /\ pc' = [pc EXCEPT ![r] = "parse"]
                   /\ UNCHANGED <<exc, resp>>
    /\ log' = [log EXCEPT ![r] = @ \o <<"extract">>]
    /\ UNCHANGED <<upload, path, numq, mcqs, scratch, nameVars, pdfVars>>

\* num_questions = int(request.form.get('num_questions', 5))
ParseCount(r) ==
    /\ pc[r] = "parse"
    /\ \E v \in FormValues :
         IF v = "abc"
         THEN /\ exc' = [exc EXCEPT ![r] = "ValueError"]
              /\ resp' = [resp EXCEPT ![r] = serverError("ValueError")]
              /\ pc' = [pc EXCEPT ![r] = "cleanup"]
              /\ UNCHANGED numq
         ELSE /\ numq' = [numq EXCEPT ![r] = DefaultNumQuestions]
              /\ pc' = [pc EXCEPT ![r] = "generate"]
              /\ UNCHANGED <<exc, resp>>
    /\ log' = [log EXCEPT ![r] = @ \o <<"parse">>]
    /\ UNCHANGED <<upload, path, text, mcqs, scratch, nameVars, pdfVars>>

\* mutant: a failed service call is retried
Generate_retry(r) ==
    /\ pc[r] = "generate"
    /\ \/ /\ exc' = [exc EXCEPT ![r] = "ServiceError"]
          /\ UNCHANGED <<mcqs, resp, pc>>
       \/ \E raw \in RawResponses :
            /\ mcqs' = [mcqs EXCEPT ![r] = generate_mcqs_with_gemini(text[r], numq[r], raw)]
            /\ pc' = [pc EXCEPT ![r] = "render"]
            /\ UNCHANGED <<exc, resp>>
    /\ log' = [log EXCEPT ![r] = @ \o <<"generate">>]
    /\ UNCHANGED <<upload, path, text, numq, scratch, nameVars, pdfVars>>

\* mcqs = generate_mcqs_with_gemini(text, num_questions): the service
\* answers or the call raises
Generate(r) ==
    /\ pc[r] = "generate"
    /\ \/ /\ exc' = [exc EXCEPT ![r] = "ServiceError"]
          /\ resp' = [resp EXCEPT ![r] = serverError("ServiceError")]
          /\ pc' = [pc EXCEPT ![r] = "cleanup"]
          /\ UNCHANGED mcqs
       \/ \E raw \in RawResponses :
            /\ mcqs' = [mcqs EXCEPT ![r] = generate_mcqs_with_gemini(text[r], numq[r], raw)]
            /\ pc' = [pc EXCEPT ![r] = "render"]
            /\ UNCHANGED <<exc, resp>>
    /\ log' = [log EXCEPT ![r] = @ \o <<"generate">>]
    /\ UNCHANGED <<upload, path, text, numq, scratch, nameVars, pdfVars>>

\* mutant: a failing results template still answers 200 with the questions
Render_partial(r) ==
    /\ pc[r] = "render"
    /\ LET pdf_filename == pdfFilename(secure_filename(upload[r].filename))
           pdf_path == tempJoin(pdf_filename)
       IN  \/ /\ exc' = [exc EXCEPT ![r] = "FPDFException"]
              /\ resp' = [resp EXCEPT ![r] = serverError("FPDFException")]
              /\ UNCHANGED scratch
           \/ /\ scratch' = writeFile(scratch, pdf_path, docFile(r, create_pdf(mcqs[r].body)))
              /\ \/ /\ resp' = [resp EXCEPT ![r] = [status |-> 200, error |-> "",
                                    mcqs |-> mcqs[r], pdf_filename |-> pdf_filename]]
                    /\ UNCHANGED exc
                 \/ /\ exc' = [exc EXCEPT ![r] = "TemplateError"]
                    /\ resp' = [resp EXCEPT ![r] = [status |-> 200, error |-> "",
                                    mcqs |-> mcqs[r], pdf_filename |-> pdf_filename]]
    /\ pc' = [pc EXCEPT ![r] = "cleanup"]
    /\ log' = [log EXCEPT ![r] = @ \o <<"render">>]
    /\ UNCHANGED <<upload, path, text, numq, mcqs, nameVars, pdfVars>>

\* pdf_path = create_pdf(mcqs, pdf_filename); return render_template(...):
\* FPDF raises before anything is written, or the document is written and
\* the results view is rendered or raises
Render(r) ==
    /\ pc[r] = "render"
    /\ LET pdf_filename == pdfFilename(secure_filename(upload[r].filename))
           pdf_path == tempJoin(pdf_filename)
       IN  \/ /\ exc' = [exc EXCEPT ![r] = "FPDFException"]
              /\ resp' = [resp EXCEPT ![r] = serverError("FPDFException")]
              /\ UNCHANGED scratch
           \/ /\ scratch' = writeFile(scratch, pdf_path, docFile(r, create_pdf(mcqs[r].body)))
              /\ \/ /\ resp' = [resp EXCEPT ![r] = [status |-> 200, error |-> "",
                                    mcqs |-> mcqs[r], pdf_filename |-> pdf_filename]]
                    /\ UNCHANGED exc
                 \/ /\ exc' = [exc EXCEPT ![r] = "TemplateError"]
                    /\ resp' = [resp EXCEPT ![r] = serverError("TemplateError")]
    /\ pc' = [pc EXCEPT ![r] = "cleanup"]
    /\ log' = [log EXCEPT ![r] = @ \o <<"render">>]
    /\ UNCHANGED <<upload, path, text, numq, mcqs, nameVars, pdfVars>>

\* mutant: the upload is removed on success only
Cleanup_onsuccess(r) ==
    /\ pc[r] = "cleanup"
    /\ scratch' = IF exists(scratch, path[r]) /\ resp[r].status = 200
                  THEN removeFile(scratch, path[r]) ELSE scratch
    /\ pc' = [pc EXCEPT ![r] = "done"]
    /\ log' = [log EXCEPT ![r] = @ \o <<"respond">>]
    /\ UNCHANGED <<upload, path, text, numq, mcqs, exc, resp, nameVars, pdfVars>>

\* the finally clause, then the response goes out.  os.path.exists and
\* os.remove are taken as one step: a file that vanishes between the two
\* makes os.remove raise, which "except: pass" swallows, and the path is
\* absent either way
Cleanup(r) ==
    /\ pc[r] = "cleanup"
    /\ scratch' = IF path[r] # <<>> /\ exists(scratch, path[r])
                  THEN removeFile(scratch, path[r]) ELSE scratch
    /\ pc' = [pc EXCEPT ![r] = "done"]
    /\ log' = [log EXCEPT ![r] = @ \o <<"respond">>]
    /\ UNCHANGED <<upload, path, text, numq, mcqs, exc, resp, nameVars, pdfVars>>

Next ==
    \E r \in Req :
        \/ Arrive(r)
        \/ Validate(r)
        \/ Save(r)
        \/ Extract(r)
        \/ ParseCount(r)
        \/ Generate(r)
        \/ Render(r)
        \/ Cleanup(r)

Spec == Init /\ [][Next]_vars

(***************************************************************************)
(* allowed_file applied to a bounded set of filenames                      *)
(***************************************************************************)
StemChars == {"a", ".", "P"}

Stems == UNION {[1..n -> StemChars] : n \in 0..MaxStemLen}

Tails ==
    { <<>>, <<".">>,
      <<".", "p", "d", "f">>, <<".", "t", "x", "t">>, <<".", "d", "o", "c", "x">>,
      <<".", "P", "D", "F">>, <<".", "T", "x", "t">>, <<".", "D", "o", "c", "X">>,
      <<".", "e", "x", "e">>, <<".", "p", "d">>, <<".", "p", "d", "f", "x">>,
      <<"p", "d", "f">>, <<".", "p", "d", "f", ".">> }

Filenames == {s \o t : s \in Stems, t \in Tails}

InitNames ==
    /\ InitHandler
    /\ fname \in Filenames
    /\ verdict = "unset"
    /\ gtext = <<>>
    /\ cells = NoCells

\* the call allowed_file(file.filename)
CallAllowedFile ==
    /\ verdict = "unset"
    /\ verdict' = IF allowed_file(fname) THEN "accept" ELSE "reject"
    /\ UNCHANGED <<handlerVars, fname, pdfVars>>

NextNames == CallAllowedFile

SpecNames == InitNames /\ [][NextNames]_vars

(***************************************************************************)
(* create_pdf applied to a bounded set of generated texts                  *)
(***************************************************************************)
Tokens == {Marker, <<"a">>, <<" ">>, <<"#">>}

RECURSIVE flatten(_)
flatten(ts) == IF ts = <<>> THEN <<>> ELSE Head(ts) \o flatten(Tail(ts))

GenTexts == {flatten(ts) : ts \in UNION {[1..n -> Tokens] : n \in 0..MaxTokens}}

InitPdf ==
    /\ InitHandler
    /\ fname = <<>>
    /\ verdict = "unset"
    /\ gtext \in GenTexts
    /\ cells = NoCells

\* the loop of create_pdf over mcqs.split("## MCQ")
CallCreatePdf ==
    /\ ~cells.called
    /\ cells' = [called |-> TRUE, texts |-> create_pdf(gtext)]
    /\ UNCHANGED <<handlerVars, nameVars, gtext>>

NextPdf == CallCreatePdf

SpecPdf == InitPdf /\ [][NextPdf]_vars

(***************************************************************************)
(* Properties                                                              *)
(***************************************************************************)
called(r, step) == \E i \in 1..Len(log[r]) : log[r][i] = step

count(r, step) == Cardinality({i \in 1..Len(log[r]) : log[r][i] = step})

ownsUpload(r) ==
    \E p \in DOMAIN scratch : scratch[p].kind = "upload" /\ scratch[p].owner = r

AloneResponses(r) ==
    LET u == upload[r]
        name == secure_filename(u.filename)
        p == tempJoin(name)
        t == extract_text_from_file(writeFile(<<>>, p, uploadFile(r, u.body)), p)
    IN  IF ~u.hasFile THEN {errorResp(400, "No file uploaded.")}
        ELSE IF ~allowed_file(u.filename)
            THEN {errorResp(400, "Invalid file format. Please upload PDF, DOCX, or TXT files.")}
        ELSE IF t.exc # "" THEN {serverError(t.exc)}
        ELSE IF ~truthy(t) THEN {errorResp(400, "Could not extract text from the file.")}
        ELSE {serverError(e) : e \in {"ValueError", "ServiceError", "FPDFException", "TemplateError"}}
             \cup {[status |-> 200, error |-> "",
                    mcqs |-> generate_mcqs_with_gemini(t, DefaultNumQuestions, raw),
                    pdf_filename |-> pdfFilename(name)] : raw \in RawResponses}

\* C2: whatever the other requests do, a request's response is one it could
\* get if it ran alone.
RequestIsolation ==
    \A r \in Req : pc[r] = "done" => resp[r] \in AloneResponses(r)

\* secure_filename tabulated over the uploaded names
sanitized == [f \in ReqNames |-> secure_filename(f)]

\* C3: requests whose sanitized filenames are equal use the same upload path
\* and name the same output document.
SharedScratchPaths ==
    \A r1, r2 \in Req :
        ( /\ path[r1] # <<>>
          /\ path[r2] # <<>>
          /\ sanitized[upload[r1].filename] = sanitized[upload[r2].filename] ) =>
            /\ path[r1] = path[r2]
            /\ (resp[r1].status = 200 /\ resp[r2].status = 200 =>
                    resp[r1].pdf_filename = resp[r2].pdf_filename)

\* the race: r2 overwrote r1's upload, so r1 extracted r2's text and answered
\* 200 with it, and r1's cleanup then deleted the shared file before r2
\* extracted, which made r2's extraction raise FileNotFoundError
RaceWitness ==
    \E r1, r2 \in Req :
        /\ r1 # r2
        /\ path[r1] = path[r2]
        /\ text[r1].src = r2
        /\ pc[r1] = "done"
        /\ resp[r1].status = 200
        /\ text[r2].exc = "FileNotFoundError"

\* C4: an extraction that raised (other than a decode failure) or returned
\* None or "" ends in the 400 "Could not extract text" response, without a
\* call of the generator.
ExtractionFailureIsClientError ==
    \A r \in Req :
        ( /\ pc[r] \in {"cleanup", "done"}
          /\ called(r, "extract")
          /\ text[r].exc # "UnicodeDecodeError"
          /\ (text[r].exc # "" \/ ~truthy(text[r])) ) =>
            /\ resp[r] = errorResp(400, "Could not extract text from the file.")
            /\ ~called(r, "generate")

\* C5: a request without a file part gets 400 "No file uploaded.", one with a
\* refused filename gets 400 "Invalid file format...", and neither has saved,
\* extracted, generated or rendered anything.
EarlyRejection ==
    \A r \in Req :
        ( /\ pc[r] \notin {"idle", "validate"}
          /\ (~upload[r].hasFile \/ ~allowed_file(upload[r].filename)) ) =>
            /\ pc[r] = "done"
            /\ resp[r].status = 400
            /\ resp[r].error = IF upload[r].hasFile
                               THEN "Invalid file format. Please upload PDF, DOCX, or TXT files."
                               ELSE "No file uploaded."
            /\ log[r] = <<"validate", "respond">>
            /\ path[r] = <<>>
            /\ \A p \in DOMAIN scratch : scratch[p].owner # r

EarlyRejectionWitness ==
    \E r1, r2 \in Req :
        /\ pc[r1] = "done" /\ ~upload[r1].hasFile
        /\ pc[r2] = "done" /\ upload[r2].hasFile /\ ~allowed_file(upload[r2].filename)

\* C6: a 200 response comes only after the count was parsed, the generator
\* answered and the renderer finished, all without an exception; a request
\* in which an exception was raised answers 500 with the exception's string
\* and no question text.
NoPartialResults ==
    \A r \in Req :
        pc[r] \in {"cleanup", "done"} =>
            /\ resp[r].status = 200 =>
                 /\ exc[r] = ""
                 /\ called(r, "parse") /\ called(r, "generate") /\ called(r, "render")
                 /\ numq[r] # 0
                 /\ mcqs[r] # NoMcqs
                 /\ resp[r].mcqs = mcqs[r]
            /\ exc[r] # "" =>
                 /\ called(r, "persist")
                 /\ resp[r] = [status |-> 500, error |-> "An error occurred: " \o exc[r],
                               mcqs |-> NoMcqs, pdf_filename |-> <<>>]

NoPartialResultsWitness ==
    \E r1, r2 \in Req :
        /\ pc[r1] = "done" /\ resp[r1].status = 200
        /\ pc[r2] = "done" /\ exc[r2] = "TemplateError" /\ mcqs[r2] # NoMcqs

rank(step) ==
    CASE step = "validate" -> 1
      [] step = "persist" -> 2
      [] step = "extract" -> 3
      [] step = "parse" -> 4
      [] step = "generate" -> 5
      [] step = "render" -> 6
      [] step = "respond" -> 7

\* C8: the calls of one request happen in the order validate, persist,
\* extract, parse, generate, render, respond; the generator is called at most
\* once, only after the upload was saved and non-empty text extracted, and a
\* failed generator call is followed by the response alone.
StepOrder ==
    \A r \in Req :
        /\ \A i \in 1..(Len(log[r]) - 1) : rank(log[r][i]) < rank(log[r][i + 1])
        /\ count(r, "generate") <= 1
        /\ called(r, "generate") =>
             /\ called(r, "persist") /\ called(r, "extract") /\ called(r, "parse")
             /\ truthy(text[r])
        /\ exc[r] = "ServiceError" =>
             /\ ~called(r, "render")
             /\ pc[r] \in {"cleanup", "done"}

StepOrderWitness ==
    \E r1, r2 \in Req :
        /\ log[r1] = <<"validate", "persist", "extract", "parse", "generate", "render", "respond">>
        /\ log[r2] = <<"validate", "persist", "extract", "parse", "generate", "respond">>
        /\ exc[r2] = "ServiceError"

\* C10: the path an accepted upload is saved under ends in ".pdf", ".txt" or
\* ".docx" (in any case), so the extractor finds an allowed extension.
ExtensionSurvivesSanitization ==
    \A r \in Req :
        path[r] # <<>> =>
            /\ contains(path[r], ".")
            /\ lower(rsplit1(path[r], ".")[2]) \in ALLOWED_EXTENSIONS

\* C7: allowed_file accepts a filename exactly when it has a '.' and the text
\* after its last '.', lower-cased, is pdf, txt or docx; calling it leaves the
\* requests and the scratch directory as they were.
ValidatorContract ==
    verdict # "unset" =>
        /\ verdict \in {"accept", "reject"}
        /\ verdict = "accept" <=>
             \E i \in 1..Len(fname) :
                 /\ fname[i] = "."
                 /\ \A j \in (i + 1)..Len(fname) : fname[j] # "."
                 /\ lower(SubSeq(fname, i + 1, Len(fname))) \in
                        {<<"p", "d", "f">>, <<"t", "x", "t">>, <<"d", "o", "c", "x">>}
        /\ scratch = <<>>
        /\ \A r \in Req : pc[r] = "idle" /\ resp[r] = NoResp

\* an accepted name with several dots and an upper-case extension
ValidatorWitness ==
    /\ verdict = "accept"
    /\ Cardinality({i \in 1..Len(fname) : fname[i] = "."}) >= 2
    /\ fname[Len(fname)] \in {"F", "X"}

markersIn(t) ==
    {i \in 1..Len(t) : i + Len(Marker) - 1 <= Len(t) /\ \A j \in 1..Len(Marker) : t[i + j - 1] = Marker[j]}

\* the k-th smallest element of a set of numbers
kth(S, k) == CHOOSE i \in S : Cardinality({j \in S : j <= i}) = k

\* the text between the (k-1)-th and the k-th marker of t
segment(t, k) ==
    LET M == markersIn(t)
        lo == IF k = 1 THEN 1 ELSE kth(M, k - 1) + Len(Marker)
        hi == IF k = Cardinality(M) + 1 THEN Len(t) ELSE kth(M, k) - 1
    IN  SubSeq(t, lo, hi)

blank(s) == \A i \in 1..Len(s) : s[i] \in Whitespace

\* s without the whitespace in front of its first and behind its last
\* non-whitespace character
trimmed(s) ==
    LET N == {i \in 1..Len(s) : s[i] \notin Whitespace}
    IN  SubSeq(s, CHOOSE i \in N : \A j \in N : i <= j, CHOOSE i \in N : \A j \in N : j <= i)

\* C9: create_pdf hands to multi_cell, in order and trimmed, exactly the
\* segments between the "## MCQ" markers that are not blank; blank segments
\* give nothing, and text without a marker gives one block when it is not blank.
RendererSegmentation ==
    cells.called =>
        LET n == Cardinality(markersIn(gtext)) + 1
            kept == {k \in 1..n : ~blank(segment(gtext, k))}
        IN  /\ Len(cells.texts) = Cardinality(kept)
            /\ \A i \in 1..Len(cells.texts) :
                   cells.texts[i] = trimmed(segment(gtext, kth(kept, i)))
            /\ (n = 1 /\ ~blank(gtext)) => cells.texts = <<trimmed(gtext)>>

\* two marker-introduced blocks, one of them trimmed, and a blank segment
RendererWitness ==
    /\ cells.called
    /\ Cardinality(markersIn(gtext)) = 2
    /\ Len(cells.texts) = 2
    /\ \E k \in 1..3 : blank(segment(gtext, k))
    /\ \E k \in 1..3 : /\ ~blank(segment(gtext, k))
                       /\ segment(gtext, k) # trimmed(segment(gtext, k))

====
